---- MODULE Spec2Model ----
(***************************************************************************)
(* The AT command catalog (ATCommands.py) and the serial frame reader      *)
(* (xbee.py) of the XBee library, as a state machine.                      *)
(*                                                                         *)
(* Bytes are the integers 0..255 and a byte string is a sequence of them.  *)
(* A 32-bit command parameter is kept as two 16-bit limbs <<hi, lo>>, its  *)
(* value being hi * 65536 + lo, because the model checker's integers are   *)
(* signed 32-bit and 0xAABBCCDD does not fit one.  Python's None is <<>>.  *)
(***************************************************************************)
EXTENDS Integers, Sequences, FiniteSets, TLC

VARIABLES
    ATCommands,   \* the catalog: command code -> class name
    cmdobj,       \* the instance the last factory call returned (NoObj if none)
    cxn,          \* XBee.cxn: the serial connection (NoCxn before connect)
    calls,        \* the transport reads of each read_frame call on cxn
    op,           \* the last call and its arguments
    result        \* what the last call returned or raised

vars == <<ATCommands, cmdobj, cxn, calls, op, result>>

\* ------------------------------------------------------------- bounds
MaxParamWidth == 5      \* longest parameter field of a tried payload
MaxFrames     == 2      \* frames the radio module puts on the wire
MaxCalls      == 3      \* read_frame calls on one connection

\* ------------------------------------------------------------- values
None == <<>>

U32(hi, lo) == <<hi, lo>>

Fits32(p) == p # None /\ p[1] \in 0..65535 /\ p[2] \in 0..65535

\* 0x0000FFFF, 0xAABBCCDD, 0xFFFFFFFF and 2^32 (too wide for 4 bytes)
ParamValues == {U32(0, 65535), U32(43707, 52445), U32(65535, 65535), U32(65536, 0)}

Params == ParamValues \cup {None}

Codes == {"DH", "DL", "SH", "SL", "ZZ"}

\* the ASCII bytes of a two letter command code (struct format "2s")
CodeBytes ==
    [c \in Codes |->
        CASE c = "DH" -> <<68, 72>>
          [] c = "DL" -> <<68, 76>>
          [] c = "SH" -> <<83, 72>>
          [] c = "SL" -> <<83, 76>>
          [] c = "ZZ" -> <<90, 90>>]

Return(kind, val) == [kind |-> kind, val |-> val]

Raise(exc) == [kind |-> "raise", val |-> exc]

\* ------------------------------------------------------------- classes
\* class attributes of the four ATCommand subclasses; SH and SL define
\* neither __init__ nor pack nor the struct packers
ATCommandDH ==
    [command |-> "DH", name |-> "Destination Address High",
     category |-> "Addressing",
     description |-> "Set/Get the upper 32 bits of the 64-bit destination address."]

ATCommandDL ==
    [command |-> "DL", name |-> "Destination Address Low",
     category |-> "Addressing",
     description |-> "Set/Get the lower 32 bits of the 64-bit destination address."]

ATCommandSH ==
    [command |-> "SH", name |-> "Serial Number High",
     category |-> "Diagnostics",
     description |-> "Used to read the high 32 bits of the RF module's unique IEEE 64-bit addresss."]

ATCommandSL ==
    [command |-> "SL", name |-> "Serial Number Low",
     category |-> "Diagnostics",
     description |-> "Used to read the low 32 bits of the RF module's unique IEEE 64-bit addresss."]

Classes ==
    [n \in {"ATCommandDH", "ATCommandDL", "ATCommandSH", "ATCommandSL"} |->
        CASE n = "ATCommandDH" -> ATCommandDH
          [] n = "ATCommandDL" -> ATCommandDL
          [] n = "ATCommandSH" -> ATCommandSH
          [] n = "ATCommandSL" -> ATCommandSL]

\* the module level dictionary: only DH and DL are entered
InitialCatalog ==
    [c \in {"DH", "DL"} |-> IF c = "DH" THEN "ATCommandDH" ELSE "ATCommandDL"]

has_key(cat, cmd) == cmd \in DOMAIN cat

\* ATCommand.__init__ through ATCommandDH.__init__ / ATCommandDL.__init__
Construct(cls, param) ==
    [cls      |-> cls,
     command  |-> Classes[cls].command,
     param    |-> param,
     name     |-> Classes[cls].name,
     category |-> Classes[cls].category,
     descr    |-> Classes[cls].description]

NoObj == [cls |-> "", command |-> "", param |-> None,
          name |-> "", category |-> "", descr |-> ""]

\* ------------------------------------------------------------- struct
\* struct format "I", big-endian: four bytes, most significant first
BE32(p) == <<p[1] \div 256, p[1] % 256, p[2] \div 256, p[2] % 256>>

\* ATCommandDH.packer / ATCommandDL.packer = struct.Struct(">2sI"):
\* struct.error when the value is no integer or does not fit 4 bytes
packer_pack(command, param) ==
    IF Fits32(param)
    THEN Return("bytes", CodeBytes[command] \o BE32(param))
    ELSE Raise("struct.error")

\* struct.Struct(">B").unpack_from(payload, offset)[0]
unpacker1(payload, offset) == U32(0, payload[offset + 1])

\* struct.Struct(">H").unpack_from(payload, offset)[0]
unpacker2(payload, offset) ==
    U32(0, payload[offset + 1] * 256 + payload[offset + 2])

\* the same four bytes read least significant first
unpacker4_little_endian(payload, offset) ==
    U32(payload[offset + 4] * 256 + payload[offset + 3],
        payload[offset + 2] * 256 + payload[offset + 1])

\* struct.Struct(">I").unpack_from(payload, offset)[0]
unpacker4(payload, offset) ==
    U32(payload[offset + 1] * 256 + payload[offset + 2],
        payload[offset + 3] * 256 + payload[offset + 4])

\* "%x" of a non-negative integer, as a sequence of hexadecimal digits
HexDigit(d) ==
    <<"0", "1", "2", "3", "4", "5", "6", "7",
      "8", "9", "a", "b", "c", "d", "e", "f">>[d + 1]

RECURSIVE Hex(_)
Hex(n) == IF n < 16 THEN <<HexDigit(n)>> ELSE Hex(n \div 16) \o <<HexDigit(n % 16)>>

Hex4(n) ==
    <<HexDigit(n \div 4096), HexDigit((n \div 256) % 16),
      HexDigit((n \div 16) % 16), HexDigit(n % 16)>>

\* "0x%x" % param: TypeError when param is None
FormatHex(param) ==
    IF param = None THEN Raise("TypeError")
    ELSE Return("text",
                <<"0", "x">> \o
                (IF param[1] = 0 THEN Hex(param[2])
                                 ELSE Hex(param[1]) \o Hex4(param[2])))

\* ------------------------------------------------------------- inputs
\* parameter fields as the radio module sends them; a field longer than
\* four bytes repeats the word
Responses == {<<"DH", <<0, 0, 255, 255>>>>, <<"SH", <<170, 187, 204, 221>>>>}

Field(word, w) == [i \in 1..w |-> word[((i - 1) % Len(word)) + 1]]

\* frame specific data of AT command frames: frame type 0x08, frame id 0x01,
\* the command code, the parameter field; and what is left of one cut short
Payloads ==
    {<<8, 1>> \o CodeBytes[r[1]] \o Field(r[2], w) :
        r \in Responses, w \in 0..MaxParamWidth}
    \cup {SubSeq(<<8, 1, 68, 72>>, 1, n) : n \in 0..3}

Call(name, cmd, param, payload) ==
    [name |-> name, cmd |-> cmd, param |-> param, payload |-> payload]

\* ------------------------------------------------------------- the factory
\* a factory that indexes the dictionary without asking has_key first
make_command_result_indexing(cat, cmd, param) ==
    IF has_key(cat, cmd)
    THEN Return("object", Construct(cat[cmd], param))
    ELSE Raise("KeyError")

make_command_result(cat, cmd, param) ==
    IF has_key(cat, cmd)
    THEN Return("object", Construct(cat[cmd], param))
    ELSE Return("None", None)

\* param is assigned only when the parameter field is 1, 2 or 4 bytes long;
\* with any other length the constructor call reads the unassigned local
parse_command_result(cat, cmd, payload) ==
    IF has_key(cat, cmd)
    THEN LET offset  == 4
             paramsz == Len(payload) - offset
         IN  CASE paramsz = 1 ->
                    Return("object", Construct(cat[cmd], unpacker1(payload, offset)))
               [] paramsz = 2 ->
                    Return("object", Construct(cat[cmd], unpacker2(payload, offset)))
               [] paramsz = 4 ->
                    Return("object", Construct(cat[cmd], unpacker4(payload, offset)))
               [] OTHER -> Raise("UnboundLocalError")
    ELSE Return("None", None)

Returned(r) == IF r.kind = "object" THEN r.val ELSE NoObj

\* a factory that enters a code it does not know into the dictionary
make_command_registering ==
    \E cmd \in Codes, param \in Params :
        LET cat == IF has_key(ATCommands, cmd) THEN ATCommands
                   ELSE [c \in DOMAIN ATCommands \cup {cmd} |->
                            IF c = cmd THEN "ATCommandDH" ELSE ATCommands[c]]
            r   == make_command_result(cat, cmd, param)
        IN  /\ op' = Call("make_command", cmd, param, <<>>)
            /\ result' = r
            /\ cmdobj' = Returned(r)
            /\ ATCommands' = cat
            /\ UNCHANGED <<cxn, calls>>

make_command ==
    \E cmd \in Codes, param \in Params :
        LET r == make_command_result(ATCommands, cmd, param)
        IN  /\ op' = Call("make_command", cmd, param, <<>>)
            /\ result' = r
            /\ cmdobj' = Returned(r)
            /\ UNCHANGED <<ATCommands, cxn, calls>>

\* the payload is one of Payloads, or the bytes pack() just returned behind a
\* frame type and a frame id
parse_command ==
    \E cmd \in Codes :
    \E payload \in Payloads \cup
                   (IF result.kind = "bytes" THEN {<<8, 1>> \o result.val} ELSE {}) :
        LET r == parse_command_result(ATCommands, cmd, payload)
        IN  /\ op' = Call("parse_command", cmd, None, payload)
            /\ result' = r
            /\ cmdobj' = Returned(r)
            /\ UNCHANGED <<ATCommands, cxn, calls>>

\* ------------------------------------------------------------- the instance
\* ATCommandDH.pack / ATCommandDL.pack
pack_result(self) == packer_pack(self.command, self.param)

pack ==
    /\ cmdobj # NoObj
    /\ op' = Call("pack", cmdobj.command, cmdobj.param, <<>>)
    /\ result' = pack_result(cmdobj)
    /\ UNCHANGED <<ATCommands, cmdobj, cxn, calls>>

describe_result(self) ==
    LET hex == FormatHex(self.param)
    IN  IF hex.kind = "raise" THEN hex
        ELSE Return("text",
                    [command |-> self.command, param |-> hex.val, name |-> self.name,
                     category |-> self.category, description |-> self.descr])

describe ==
    /\ cmdobj # NoObj
    /\ op' = Call("describe", cmdobj.command, cmdobj.param, <<>>)
    /\ result' = describe_result(cmdobj)
    /\ UNCHANGED <<ATCommands, cmdobj, cxn, calls>>

\* ------------------------------------------------------------- the wire
\* start-of-message marker of an API frame
SOM == 126

RECURSIVE Sum(_)
Sum(bytes) == IF bytes = <<>> THEN 0 ELSE Head(bytes) + Sum(Tail(bytes))

Checksum(payload) == 255 - (Sum(payload) % 256)

\* the envelope of one frame: marker, big-endian length, payload, checksum
Envelope(payload) ==
    <<SOM, Len(payload) \div 256, Len(payload) % 256>> \o payload \o <<Checksum(payload)>>

\* frame.pack() of an AT command frame wrapping a command instance
BuildFrame(frameType, frameId, command) ==
    LET packed == pack_result(command)
    IN  IF packed.kind = "raise" THEN packed
        ELSE Return("bytes", Envelope(<<frameType, frameId>> \o packed.val))

\* the registry of frame classes, by frame type: 0x08 and 0x88
ZigBeeAPIFrames == [t \in {8, 136} |-> "ZigBeeAPIFrame"]

\* ZigBeeAPIFrames[frametype](payload, chksum)
APIFrame(frametype, payload, chksum) ==
    Return("frame", [frametype |-> frametype, payload |-> payload, chksum |-> chksum])

\* what the radio module sends: whole frames, then at most one last frame
\* that is of an unregistered type, damaged in one payload byte, or cut short
\* by the transport closing
ResponseSH == <<8, 1, 83, 72, 170, 187, 204, 221>>

ResponseDL == <<136, 1, 68, 76>>

GoodFrames == {Envelope(ResponseSH), Envelope(ResponseDL)}

Damage(frame, i, d) == [frame EXCEPT ![3 + i] = (@ + d) % 256]

DropLast(frame, n) == SubSeq(frame, 1, Len(frame) - n)

LastFrames ==
    {Envelope(<<85, 1>>), Damage(Envelope(ResponseSH), 6, 1),
     DropLast(Envelope(ResponseSH), 1), DropLast(Envelope(ResponseSH), 2),
     DropLast(Envelope(ResponseSH), 9), DropLast(Envelope(ResponseSH), 10)}

RECURSIVE GoodRuns(_)
GoodRuns(n) ==
    IF n = 0 THEN {<<>>}
    ELSE LET shorter == GoodRuns(n - 1)
         IN  shorter \cup {Append(fs, f) : fs \in shorter, f \in GoodFrames}

Wires ==
    GoodRuns(MaxFrames) \cup
    {Append(fs, f) : fs \in GoodRuns(MaxFrames - 1), f \in LastFrames}

RECURSIVE Flatten(_)
Flatten(fs) == IF fs = <<>> THEN <<>> ELSE Head(fs) \o Flatten(Tail(fs))

\* ------------------------------------------------------------- the session
NoCxn == [open |-> FALSE, frames |-> <<>>, rx |-> <<>>, pos |-> 0]

\* serial.Serial(name): the port opens, or SerialException
connect ==
    \/ \E fs \in Wires :
        /\ cxn' = [open |-> TRUE, frames |-> fs, rx |-> Flatten(fs), pos |-> 0]
        /\ calls' = <<>>
        /\ op' = Call("connect", "", None, <<>>)
        /\ result' = Return("None", None)
        /\ UNCHANGED <<ATCommands, cmdobj>>
    \/ /\ op' = Call("connect", "", None, <<>>)
       /\ result' = Raise("SerialException")
       /\ UNCHANGED <<ATCommands, cmdobj, cxn, calls>>

\* self.cxn.write(frame.pack()); op.payload is what write was given
send_frame ==
    /\ cmdobj # NoObj
    /\ \E frameId \in {1} :
        LET bytes == BuildFrame(8, frameId, cmdobj)
        IN  /\ result' = IF ~cxn.open THEN Raise("AttributeError")
                         ELSE IF bytes.kind = "raise" THEN bytes
                         ELSE Return("None", None)
            /\ op' = Call("send_frame", cmdobj.command, cmdobj.param,
                          IF cxn.open /\ bytes.kind = "bytes" THEN bytes.val ELSE <<>>)
    /\ UNCHANGED <<ATCommands, cmdobj, cxn, calls>>

\* cxn.read(n): the next n bytes, fewer when the stream ends before
Read(c, pos, n) ==
    SubSeq(c.rx, pos + 1, IF pos + n <= Len(c.rx) THEN pos + n ELSE Len(c.rx))

\* the header's length field read least significant byte first
unpacker_little_endian(header) ==
    [SOM |-> header[1], sz |-> header[3] * 256 + header[2]]

\* XBee.unpacker = struct.Struct(">BH"), unpack_from(header)
unpacker(header) ==
    [SOM |-> header[1], sz |-> header[2] * 256 + header[3]]

\* one read_frame call on an open connection: the reads it issues, where
\* the stream stands afterwards, and what it returns or raises
ReadFrame(c) ==
    LET header == Read(c, c.pos, 3)
        p1     == c.pos + Len(header)
    IN  IF Len(header) < 3
        THEN [start |-> c.pos, reads |-> <<3>>, header |-> header,
              payload |-> <<>>, chksum |-> <<>>, end |-> p1,
              result |-> Raise("struct.error")]
        ELSE LET sz      == unpacker(header).sz
                 payload == Read(c, p1, sz)
                 p2      == p1 + Len(payload)
                 chksum  == Read(c, p2, 1)
                 p3      == p2 + Len(chksum)
             IN  [start |-> c.pos, reads |-> <<3, sz, 1>>, header |-> header,
                  payload |-> payload, chksum |-> chksum, end |-> p3,
                  result |->
                      IF payload = <<>> THEN Raise("IndexError")
                      ELSE IF payload[1] \notin DOMAIN ZigBeeAPIFrames
                           THEN Raise("KeyError")
                           ELSE APIFrame(payload[1], payload, chksum)]

read_frame ==
    \/ /\ ~cxn.open
       /\ op' = Call("read_frame", "", None, <<>>)
       /\ result' = Raise("AttributeError")
       /\ UNCHANGED <<ATCommands, cmdobj, cxn, calls>>
    \/ /\ cxn.open
       /\ Len(calls) < MaxCalls
       /\ LET call == ReadFrame(cxn)
          IN  /\ cxn' = [cxn EXCEPT !.pos = call.end]
              /\ calls' = Append(calls, call)
              /\ result' = call.result
       /\ op' = Call("read_frame", "", None, <<>>)
       /\ UNCHANGED <<ATCommands, cmdobj>>

\* ------------------------------------------------------------- the system
Init ==
    /\ ATCommands = InitialCatalog
    /\ cmdobj = NoObj
    /\ cxn = NoCxn
    /\ calls = <<>>
    /\ op = Call("", "", None, <<>>)
    /\ result = Return("None", None)

NextCmd ==
    \/ make_command
    \/ parse_command
    \/ pack
    \/ describe

NextIO ==
    \/ make_command
    \/ connect
    \/ send_frame
    \/ read_frame

Next ==
    \/ make_command
    \/ parse_command
    \/ pack
    \/ describe
    \/ connect
    \/ send_frame
    \/ read_frame

\* the whole library
Spec == Init /\ [][Next]_vars

\* the command catalog alone
SpecCmd == Init /\ [][NextCmd]_vars

\* the serial session, sending the commands make_command builds
SpecIO == Init /\ [][NextIO]_vars

\* ------------------------------------------------------------- properties
Raised(exc) == result.kind = "raise" /\ result.val = exc

\* the read_frame call that has just returned or raised
LastCall == calls[Len(calls)]

JustRead == op.name = "read_frame" /\ cxn.open /\ Len(calls) > 0

\* every read of the call got as many bytes as it asked for
FullyReceived(call) ==
    /\ Len(call.header) = 3
    /\ Len(call.reads) = 3
    /\ Len(call.payload) = call.reads[2]
    /\ Len(call.chksum) = 1

\* C1: parse_command(code, frame type + frame id + pack()) of a registered
\* code and a parameter that fits 4 bytes returns a command with that code
\* and that parameter.
C1_RoundTrip ==
    \A c \in DOMAIN ATCommands, p \in ParamValues :
        LET packed == pack_result(Construct(ATCommands[c], p))
        IN  (/\ Fits32(p)
             /\ packed.kind = "bytes"
             /\ op.name = "parse_command"
             /\ op.cmd = c
             /\ op.payload = <<8, 1>> \o packed.val)
            => (/\ result.kind = "object"
                /\ result.val.command = c
                /\ result.val.param = p)

C1_RoundTripWitness ==
    /\ op.name = "parse_command"
    /\ op.cmd = "DL"
    /\ op.payload = <<8, 1, 68, 76, 170, 187, 204, 221>>
    /\ result.kind = "object"
    /\ result.val.command = "DL"
    /\ result.val.param = U32(43707, 52445)

\* C2: read_frame rejects with ChecksumMismatchError every frame whose
\* received checksum byte is not 0xFF - (sum(payload) mod 256).
C2_ChecksumRejected ==
    (/\ JustRead
     /\ FullyReceived(LastCall)
     /\ LastCall.chksum[1] # Checksum(LastCall.payload))
    => Raised("ChecksumMismatchError")

\* C3: parse_command of a registered code with a parameter field that is not
\* 1, 2 or 4 bytes long fails with UnsupportedPayloadWidthError.
C3_WidthRejected ==
    (/\ op.name = "parse_command"
     /\ has_key(ATCommands, op.cmd)
     /\ Len(op.payload) - 4 \notin {1, 2, 4})
    => Raised("UnsupportedPayloadWidthError")

\* C4 as claimed: make_command and parse_command of an unregistered code
\* fail with UnknownCommandError.
C4_UnknownCodeRaises ==
    (/\ op.name \in {"make_command", "parse_command"}
     /\ ~has_key(ATCommands, op.cmd))
    => Raised("UnknownCommandError")

\* C4: make_command and parse_command of an unregistered code raise nothing
\* and return None, the absent marker, and construct no command.
C4_UnknownCodeReturnsNone ==
    (/\ op.name \in {"make_command", "parse_command"}
     /\ ~has_key(ATCommands, op.cmd))
    => (result.kind = "None" /\ cmdobj = NoObj)

C4_UnknownCodeWitness ==
    /\ op.name = "make_command"
    /\ op.cmd = "ZZ"
    /\ op.param = U32(0, 65535)
    /\ result.kind = "None"

\* C5: pack() returns the 2 code bytes followed by the parameter in 4
\* big-endian bytes, and the 2 code bytes alone when the parameter is None.
C5_PackBytes ==
    (/\ op.name = "pack"
     /\ (op.param = None \/ Fits32(op.param)))
    => (/\ result.kind = "bytes"
        /\ result.val = CodeBytes[op.cmd] \o
                        (IF op.param = None THEN <<>> ELSE BE32(op.param))
        /\ (op.cmd = "DH" /\ op.param = U32(0, 65535)
               => result.val = <<68, 72, 0, 0, 255, 255>>))

\* C6: DH, DL, SH and SL are all registered: parse_command("SH", 08 01 53 48
\* AA BB CC DD) is a command SH with parameter 0xAABBCCDD, and make_command
\* of any of the four codes returns a command.
C6_AllFourRegistered ==
    (/\ op.name \in {"make_command", "parse_command"}
     /\ op.cmd \in {"DH", "DL", "SH", "SL"})
    => (/\ has_key(ATCommands, op.cmd)
        /\ (op.name = "make_command" => result.kind = "object")
        /\ (op.name = "parse_command" /\ op.cmd = "SH" /\ op.payload = ResponseSH)
             => (/\ result.kind = "object"
                 /\ result.val.command = "SH"
                 /\ result.val.param = U32(43707, 52445)))

\* C7: when a read of read_frame gets fewer bytes than it asked for,
\* read_frame fails with TruncatedFrameError.
C7_TruncatedRejected ==
    (JustRead /\ ~FullyReceived(LastCall)) => Raised("TruncatedFrameError")

\* C8: a fully received frame with a valid checksum and an unregistered frame
\* type makes read_frame fail with UnknownFrameTypeError.
C8_UnknownFrameType ==
    (/\ JustRead
     /\ FullyReceived(LastCall)
     /\ LastCall.payload # <<>>
     /\ LastCall.chksum[1] = Checksum(LastCall.payload)
     /\ LastCall.payload[1] \notin DOMAIN ZigBeeAPIFrames)
    => Raised("UnknownFrameTypeError")

\* a frame as the wire format defines it
WellFormed(f) ==
    /\ Len(f) >= 4
    /\ f[1] = SOM
    /\ f[2] * 256 + f[3] = Len(f) - 4
    /\ f[Len(f)] = Checksum(SubSeq(f, 4, Len(f) - 1))

\* C9: a read_frame call that gets its 3 header bytes issues read(3),
\* read(length), read(1), length being the big-endian value of header bytes
\* 1..2, and with every read served in full consumes length + 4 bytes; while
\* the stream is a run of well-formed frames, the k-th call starts at the first
\* byte of the k-th frame and gets that frame's payload and checksum.
C9_FrameAligned ==
    \A k \in 1..Len(calls) :
        LET call == calls[k]
        IN  /\ Len(call.header) = 3
                => call.reads = <<3, call.header[2] * 256 + call.header[3], 1>>
            /\ FullyReceived(call)
                => call.end = call.start + call.reads[2] + 4
            /\ (/\ k <= Len(cxn.frames)
                /\ \A i \in 1..k : WellFormed(cxn.frames[i]))
               => LET f == cxn.frames[k]
                  IN  /\ call.start = Len(Flatten(SubSeq(cxn.frames, 1, k - 1)))
                      /\ call.reads = <<3, Len(f) - 4, 1>>
                      /\ call.payload = SubSeq(f, 4, Len(f) - 1)
                      /\ call.chksum = <<f[Len(f)]>>
                      /\ call.end = call.start + Len(f)

C9_FrameAlignedWitness ==
    /\ JustRead
    /\ Len(calls) = 2
    /\ cxn.frames = <<Envelope(ResponseSH), Envelope(ResponseDL)>>
    /\ calls[2].start = 12
    /\ calls[2].payload = ResponseDL
    /\ cxn.pos = 20

\* C10: no call changes the catalog, and pack() and describe() leave the
\* command they are called on as it was.
C10_CatalogReadOnly ==
    /\ [](ATCommands = InitialCatalog)
    /\ [][op'.name \in {"pack", "describe"} => cmdobj' = cmdobj]_vars

C10_CatalogReadOnlyWitness ==
    /\ op.name = "pack"
    /\ result.kind = "bytes"
    /\ cmdobj.param = op.param
    /\ Len(calls) > 0
    /\ ATCommands = InitialCatalog

====
